---- MODULE Spec2Model ----
(***************************************************************************)
(* Markov-chain mixture distribution model (MCM.py): MCMFit estimates a    *)
(* transition matrix from a time series, MCMForecast selects the row of    *)
(* the observation's bin, MCMRnd samples the piece-wise uniform            *)
(* distribution by inverse CDF.                                            *)
(*                                                                         *)
(* Numbers.  The bin arithmetic of MCMFit and MCMForecast decides a        *)
(* discrete bin index from rounded quotients and sums, so it is modelled   *)
(* in binary floating point with round-to-nearest-even: a float is         *)
(* [m, e] = m * 2^e with a Prec-bit significand and an unbounded exponent  *)
(* (no overflow, underflow or subnormals).  Probabilities (the entries of  *)
(* p, transProbs, probsCDF and the uniform draw) are kept as exact         *)
(* fractions over a common denominator.                                    *)
(***************************************************************************)
EXTENDS Integers, FiniteSets, Sequences, TLC

(* ------------------------------ bounds -------------------------------- *)
MaxLen == 4
MaxN == 3
MaxSteps == 2
MaxTenth == 4
MaxFcTenth == 5
MaxCount == 2
PDen == 2
UDen == 4

(* ------------------------- floating point ----------------------------- *)
\* Significand width.  numpy computes in binary64 (53 bits), beyond TLC's
\* integers.  9 bits (9 = 53 mod 4; the binary expansion of 1/10 has period
\* 4) give the same bin indices as binary64 for every series, range and
\* observation of tenths 0.1 .. 0.6 with up to 4 bins.
Prec == 9

Zero == [m |-> 0, e |-> 0]

Min2(x, y) == IF x <= y THEN x ELSE y

RECURSIVE BitLen(_)
BitLen(N) == IF N = 0 THEN 0 ELSE 1 + BitLen(N \div 2)

\* The float nearest to N * 2^e (N >= 0), ties to even.
Round(N, e) ==
  IF N = 0 THEN Zero
  ELSE LET k == BitLen(N) IN
       IF k <= Prec
       THEN [m |-> N * 2^(Prec - k), e |-> e - (Prec - k)]
       ELSE LET s == k - Prec
                q == N \div 2^s
                r == N % 2^s
                half == 2^(s - 1)
                up == r > half \/ (r = half /\ q % 2 = 1)
                q1 == IF up THEN q + 1 ELSE q
            IN IF q1 = 2^Prec
               THEN [m |-> 2^(Prec - 1), e |-> e + s + 1]
               ELSE [m |-> q1, e |-> e + s]

FromInt(i) == Round(i, 0)

FlAdd(x, y) ==
  LET e == Min2(x.e, y.e)
  IN Round(x.m * 2^(x.e - e) + y.m * 2^(y.e - e), e)

\* x - y for x >= y >= 0.
FlSub(x, y) ==
  LET e == Min2(x.e, y.e)
  IN Round(x.m * 2^(x.e - e) - y.m * 2^(y.e - e), e)

FlMul(x, y) == Round(x.m * y.m, x.e + y.e)

\* x / y for y > 0: the quotient to Prec + 1 bits and a sticky bit, rounded.
FlDiv(x, y) ==
  IF x.m = 0 THEN Zero
  ELSE LET num == x.m * 2^(Prec + 1)
           q == num \div y.m
           r == num % y.m
       IN Round(2 * q + (IF r = 0 THEN 0 ELSE 1), x.e - y.e - Prec - 2)

FlGe(x, y) ==
  LET e == Min2(x.e, y.e)
  IN x.m * 2^(x.e - e) >= y.m * 2^(y.e - e)

FlLt(x, y) == ~FlGe(x, y)

\* np.floor of a float >= 0, as an integer.
Floor(x) == IF x.e >= 0 THEN x.m * 2^(x.e) ELSE x.m \div 2^(-x.e)

\* The float that the decimal literal k/10 denotes.
Tenth(k) == FlDiv(FromInt(k), FromInt(10))

Values == {Tenth(k) : k \in 1..MaxTenth}

FcValues == {Tenth(k) : k \in 1..MaxFcTenth}

(* ----------------------------- helpers -------------------------------- *)
Size(f) == Cardinality(DOMAIN f)

Range(f) == {f[k] : k \in DOMAIN f}

\* sum of f[lo], ..., f[hi]
RECURSIVE SumRange(_, _, _)
SumRange(f, lo, hi) == IF lo > hi THEN 0 ELSE f[lo] + SumRange(f, lo + 1, hi)

RECURSIVE ProdRange(_, _, _)
ProdRange(f, lo, hi) == IF lo > hi THEN 1 ELSE f[lo] * ProdRange(f, lo + 1, hi)

NpMin(d) == CHOOSE v \in Range(d) : \A w \in Range(d) : FlGe(w, v)

NpMax(d) == CHOOSE v \in Range(d) : \A w \in Range(d) : FlGe(v, w)

VARIABLES pc, err, data, n, timeSteps, state, p,
          minValue, maxValue, obsPoint, binStarts, obsBin, transProbs,
          count, randWithinECDF, randWithinBin, binIndex, fcstSamples

vars == <<pc, err, data, n, timeSteps, state, p,
          minValue, maxValue, obsPoint, binStarts, obsBin, transProbs,
          count, randWithinECDF, randWithinBin, binIndex, fcstSamples>>

fitVars == <<data, n, timeSteps, state, p>>
fcVars == <<minValue, maxValue, obsPoint, binStarts, obsBin, transProbs>>
rndVars == <<count, randWithinECDF, randWithinBin, binIndex, fcstSamples>>

NoMatrix == [num |-> <<>>, den |-> 1]
NoRow == [num |-> <<>>, den |-> 1]

(* ------------------------------ MCMFit -------------------------------- *)
\* What astype('int32') makes of NaN: the cast is undefined in C; x86
\* yields INT_MIN, other targets 0.
NaNToInt32 == {-2147483647 - 1, 0}

\* StateOf without line 62
StateOfNoClamp(v, a, binWidth, nn) == Floor(FlDiv(FlSub(v, a), binWidth))

\* state of one observation (lines 61-62), a < b
StateOf(v, a, binWidth, nn) ==
  LET s == Floor(FlDiv(FlSub(v, a), binWidth))
  IN IF s > nn - 1 THEN nn - 1 ELSE s

\* lines 55-63 for a < b
States(d, nn) ==
  LET a == NpMin(d)
      b == NpMax(d)
      binWidth == FlDiv(FlSub(b, a), FromInt(nn))
  IN [k \in DOMAIN d |-> StateOf(d[k], a, binWidth, nn)]

\* numpy accepts an index in -nn .. nn-1 and wraps the negative ones
IndexOk(idx, nn) == idx >= -nn /\ idx < nn

Wrap(idx, nn) == IF idx < 0 THEN idx + nn ELSE idx

\* CountLoop with the two indices of line 68 exchanged
RECURSIVE CountLoopSwapped(_, _, _, _)
CountLoopSwapped(st, i, nn, c) ==
  IF i >= Size(st) THEN c
  ELSE CountLoopSwapped(st, i + 1, nn,
         [c EXCEPT ![Wrap(st[i], nn)][Wrap(st[i - 1], nn)] = @ + 1])

\* lines 66-68: the counting loop from iteration i on
RECURSIVE CountLoop(_, _, _, _)
CountLoop(st, i, nn, c) ==
  IF i >= Size(st) THEN c
  ELSE CountLoop(st, i + 1, nn,
         [c EXCEPT ![Wrap(st[i - 1], nn)][Wrap(st[i], nn)] = @ + 1])

\* lines 71-72
RowSums(c, nn) ==
  [i \in 0..(nn - 1) |->
     LET s == SumRange(c[i], 0, nn - 1) IN IF s = 0 THEN 1 ELSE s]

\* line 73: every row divided by its sum, over the common denominator
Normalize(c, nn) ==
  LET rowSums == RowSums(c, nn)
      den == ProdRange(rowSums, 0, nn - 1)
  IN [num |-> [i \in 0..(nn - 1) |->
                 [j \in 0..(nn - 1) |-> c[i][j] * (den \div rowSums[i])]],
      den |-> den]

MatMul(A, B, nn) ==
  [num |-> [i \in 0..(nn - 1) |->
              [j \in 0..(nn - 1) |->
                 SumRange([k \in 0..(nn - 1) |-> A.num[i][k] * B.num[k][j]],
                          0, nn - 1)]],
   den |-> A.den * B.den]

\* line 75: np.linalg.matrix_power for an exponent >= 1
RECURSIVE MatrixPower(_, _, _)
MatrixPower(M, k, nn) ==
  IF k = 1 THEN M ELSE MatMul(MatrixPower(M, k - 1, nn), M, nn)

Zeros(nn) == [i \in 0..(nn - 1) |-> [j \in 0..(nn - 1) |-> 0]]

\* lines 66-78 on the states st
FitFrom(st) ==
  IF \E k \in 1..(Size(st) - 1) : ~IndexOk(st[k - 1], n) \/ ~IndexOk(st[k], n)
  THEN \* line 68: index out of bounds
       /\ pc' = "FitRaised"
       /\ err' = "IndexError"
       /\ state' = st
       /\ p' = p
  ELSE /\ pc' = "FitReturned"
       /\ err' = err
       /\ state' = st
       /\ p' = MatrixPower(Normalize(CountLoop(st, 1, n, Zeros(n)), n),
                           timeSteps, n)

MCMFit ==
  /\ pc = "MCMFit"
  /\ IF Size(data) = 0
     THEN \* line 55: np.min of an empty array raises
          /\ pc' = "FitRaised"
          /\ err' = "ValueError"
          /\ UNCHANGED <<state, p>>
     ELSE IF NpMin(data) = NpMax(data)
     THEN \* binWidth = 0: every (data - a) / binWidth is 0/0 = NaN
          \E g \in NaNToInt32 : FitFrom([k \in DOMAIN data |-> g])
     ELSE FitFrom(States(data, n))
  /\ UNCHANGED <<data, n, timeSteps, fcVars, rndVars>>

(* ---------------------------- MCMForecast ----------------------------- *)
\* line 115
BinStartsOf(mn, binWidth, nn) ==
  [i \in 0..(nn - 1) |-> FlAdd(FlMul(FromInt(i), binWidth), mn)]

\* line 104 with <= for <
RangeOkLe(mn, mx) == FlGe(mx, mn)

\* line 104
RangeOk(mn, mx) == FlLt(mn, mx)

\* line 105
ObsOk(obs, mn) == FlGe(obs, mn)

\* line 118 with > for >=
WhereGt(obs, bs) == {i \in DOMAIN bs : ~FlGe(bs[i], obs)}

\* np.where(obsPoint >= binStarts)[0]
WhereGe(obs, bs) == {i \in DOMAIN bs : FlGe(obs, bs[i])}

LastOf(S) == CHOOSE i \in S : \A k \in S : k <= i

FirstOf(S) == CHOOSE i \in S : \A k \in S : i <= k

MCMForecast ==
  /\ pc = "MCMForecast"
  /\ IF ~RangeOk(minValue, maxValue)
     THEN /\ pc' = "ForecastRaised"
          /\ err' = "AssertionError: minValue must be less than maxValue."
          /\ UNCHANGED <<binStarts, obsBin, transProbs>>
     ELSE IF ~ObsOk(obsPoint, minValue)
     THEN /\ pc' = "ForecastRaised"
          /\ err' = "AssertionError: Observation has to be larger than minValue."
          /\ UNCHANGED <<binStarts, obsBin, transProbs>>
     ELSE LET nn == Size(p.num)
              binWidth == FlDiv(FlSub(maxValue, minValue), FromInt(nn))
              bs == BinStartsOf(minValue, binWidth, nn)
              hits == WhereGe(obsPoint, bs)
          IN IF hits = {}
             THEN /\ pc' = "ForecastRaised"
                  /\ err' = "IndexError"
                  /\ UNCHANGED <<binStarts, obsBin, transProbs>>
             ELSE /\ pc' = "ForecastReturned"
                  /\ err' = err
                  /\ binStarts' = bs
                  /\ obsBin' = LastOf(hits)
                  /\ transProbs' = [num |-> p.num[LastOf(hits)], den |-> p.den]
  /\ UNCHANGED <<fitVars, minValue, maxValue, obsPoint, rndVars>>

\* MCMTest.py line 34: MCMForecast(p, data.min(), data.max(), obsPoint)
TestForecast ==
  /\ pc = "FitReturned"
  /\ \E obs \in Values :
       /\ obsPoint' = obs
       /\ minValue' = NpMin(data)
       /\ maxValue' = NpMax(data)
  /\ pc' = "MCMForecast"
  /\ UNCHANGED <<err, fitVars, binStarts, obsBin, transProbs, rndVars>>

(* ------------------------------ MCMRnd -------------------------------- *)
\* line 149
CumSum(row) == [i \in DOMAIN row |-> SumRange(row, 0, i)]

\* np.random.uniform(0, 1): k / UDen for k in 0 .. UDen-1
URange == 0..(UDen - 1)

\* np.random.uniform(0, binWidth): points of [0, binWidth)
Jitter(binWidth) == {Zero, FlDiv(binWidth, FromInt(2))}

\* np.where(u <= probsCDF)[0] for u = k / UDen and probsCDF over den
WhereLe(k, cdf, den) == {i \in DOMAIN cdf : k * den <= cdf[i] * UDen}

\* the draws 0 .. count-1 that find a bin, up to the first that finds none
RECURSIVE Picked(_, _, _, _, _)
Picked(us, cdf, den, i, cnt) ==
  IF i >= cnt \/ WhereLe(us[i], cdf, den) = {} THEN <<>>
  ELSE <<FirstOf(WhereLe(us[i], cdf, den))>> \o Picked(us, cdf, den, i + 1, cnt)

MCMRnd ==
  /\ pc = "MCMRnd"
  /\ IF Size(binStarts) < 2
     THEN \* line 143: np.diff(binStarts) is empty
          /\ pc' = "RndRaised"
          /\ err' = "IndexError"
          /\ UNCHANGED <<randWithinECDF, randWithinBin, binIndex, fcstSamples>>
     ELSE LET binWidth == FlSub(binStarts[1], binStarts[0])
              probsCDF == CumSum(transProbs.num)
          IN \E us \in [0..(count - 1) -> URange],
                js \in [0..(count - 1) -> Jitter(binWidth)] :
               LET picks == Picked(us, probsCDF, transProbs.den, 0, count)
               IN /\ randWithinECDF' = us
                  /\ randWithinBin' = js
                  /\ binIndex' = picks
                  /\ IF Len(picks) < count
                     THEN \* line 161: [0][0] of an empty np.where
                          /\ pc' = "RndRaised"
                          /\ err' = "IndexError"
                          /\ fcstSamples' = fcstSamples
                     ELSE /\ pc' = "RndReturned"
                          /\ err' = err
                          /\ fcstSamples' =
                               [i \in 0..(count - 1) |->
                                  FlAdd(binStarts[picks[i + 1]], js[i])]
  /\ UNCHANGED <<fitVars, fcVars, count>>

(* --------------------------- specifications --------------------------- *)
\* The series of the worked example: 0.1, 0.2, 0.2, 0.3, 0.1, 0.2.
Example == [k \in 0..5 |-> Tenth(<<1, 2, 2, 3, 1, 2>>[k + 1])]

\* MCMTest.py: fit a series, forecast from an observation.
Init ==
  /\ pc = "MCMFit"
  /\ err = ""
  /\ data \in UNION {[0..(l - 1) -> Values] : l \in 0..MaxLen} \cup {Example}
  /\ n \in 1..MaxN
  /\ timeSteps \in 1..MaxSteps
  /\ state = <<>>
  /\ p = NoMatrix
  /\ minValue = Zero /\ maxValue = Zero /\ obsPoint = Zero
  /\ binStarts = <<>> /\ obsBin = 0 /\ transProbs = NoRow
  /\ count = 0 /\ randWithinECDF = <<>> /\ randWithinBin = <<>>
  /\ binIndex = <<>> /\ fcstSamples = <<>>

Next == MCMFit \/ TestForecast \/ MCMForecast

Spec == Init /\ [][Next]_vars

\* A transition matrix that MCMFit returns for a series walking the states
\* in a cycle: row i has its mass on state i+1.
Cycle(nn) ==
  [num |-> [i \in 0..(nn - 1) |->
              [j \in 0..(nn - 1) |-> IF j = (i + 1) % nn THEN 1 ELSE 0]],
   den |-> 1]

\* The bin edges of a forecast over [mn, mx], or none for an empty range.
Edges(mn, mx, nn) ==
  IF FlLt(mn, mx)
  THEN Range(BinStartsOf(mn, FlDiv(FlSub(mx, mn), FromInt(nn)), nn))
  ELSE {}

\* MCMForecast called on its own with any range and observation.
InitForecast ==
  /\ pc = "MCMForecast"
  /\ err = ""
  /\ data = <<>> /\ n = 0 /\ timeSteps = 1 /\ state = <<>>
  /\ \E nn \in 1..MaxN :
       /\ p = Cycle(nn)
       /\ minValue \in FcValues
       /\ maxValue \in FcValues
       /\ obsPoint \in FcValues \cup Edges(minValue, maxValue, nn)
  /\ binStarts = <<>> /\ obsBin = 0 /\ transProbs = NoRow
  /\ count = 0 /\ randWithinECDF = <<>> /\ randWithinBin = <<>>
  /\ binIndex = <<>> /\ fcstSamples = <<>>

NextForecast == MCMForecast

SpecForecast == InitForecast /\ [][NextForecast]_vars

\* The rows MCMForecast hands on: masses k / PDen whose sum is 1, 0 (a state
\* never left) or in between (a power of a matrix with such a state).
Rows(nn) ==
  {[num |-> r, den |-> PDen] :
     r \in {f \in [0..(nn - 1) -> 0..PDen] : SumRange(f, 0, nn - 1) <= PDen}}

\* MCMRnd called on a piece-wise uniform distribution.
InitRnd ==
  /\ pc = "MCMRnd"
  /\ err = ""
  /\ data = <<>> /\ n = 0 /\ timeSteps = 1 /\ state = <<>> /\ p = NoMatrix
  /\ minValue \in Values
  /\ maxValue \in Values
  /\ FlLt(minValue, maxValue)
  /\ obsPoint = minValue
  /\ obsBin = 0
  /\ \E nn \in 1..MaxN :
       /\ binStarts = BinStartsOf(minValue,
                        FlDiv(FlSub(maxValue, minValue), FromInt(nn)), nn)
       /\ transProbs \in Rows(nn)
  /\ count \in 0..MaxCount
  /\ randWithinECDF = <<>> /\ randWithinBin = <<>>
  /\ binIndex = <<>> /\ fcstSamples = <<>>

NextRnd == MCMRnd

SpecRnd == InitRnd /\ [][NextRnd]_vars

(* ------------------------------ claims -------------------------------- *)
\* MCMFit has returned its matrix (the run may have gone on to the forecast).
Fitted == pc \in {"FitReturned", "MCMForecast", "ForecastReturned", "ForecastRaised"}

\* A series of at least two observations with min < max.
ValidSeries == Size(data) >= 2 /\ FlLt(NpMin(data), NpMax(data))

RowSum(M, i) == SumRange(M.num[i], 0, Size(M.num[i]) - 1)

RowTotal(row) == SumRange(row.num, 0, Size(row.num) - 1)

\* the consecutive pairs that leave state i, and those that go on to state j
Leaving(i) == {k \in 1..(Size(data) - 1) : state[k - 1] = i}

Pairs(i, j) == {k \in Leaving(i) : state[k] = j}

\* C1: for a series of at least 2 observations with min < max, every n and
\* every steps >= 1, each row of the matrix MCMFit returns sums to 1 or is
\* all zero, and so the row MCMForecast returns from it has sum 0 or 1.
C1_RowsSumToOneOrZero ==
  /\ (Fitted /\ ValidSeries) =>
       \A i \in 0..(n - 1) : RowSum(p, i) \in {0, p.den}
  /\ (pc = "ForecastReturned" /\ ValidSeries) =>
       RowTotal(transProbs) \in {0, transProbs.den}

\* C2: for steps = 1 and min < max, entry [i][j] of the matrix MCMFit returns
\* is the number of consecutive pairs in state i then j over the number of
\* pairs leaving state i, and 0 for every j when no pair leaves i; the series
\* 0.1, 0.2, 0.2, 0.3, 0.1, 0.2 with n = 2 has the states 0,1,1,1,0,1 and the
\* matrix [[0, 1], [1/3, 2/3]].
C2_TransitionFrequencies ==
  /\ (Fitted /\ ValidSeries /\ timeSteps = 1) =>
       \A i, j \in 0..(n - 1) :
         IF Leaving(i) # {}
         THEN p.num[i][j] * Cardinality(Leaving(i))
                = Cardinality(Pairs(i, j)) * p.den
         ELSE p.num[i][j] = 0
  /\ (Fitted /\ data = Example /\ n = 2 /\ timeSteps = 1) =>
       /\ state = [k \in 0..5 |-> <<0, 1, 1, 1, 0, 1>>[k + 1]]
       /\ p.num[0][0] = 0
       /\ p.num[0][1] = p.den
       /\ 3 * p.num[1][0] = p.den
       /\ 3 * p.num[1][1] = 2 * p.den

\* MCMFit has returned the matrix of the worked example.
C2_Witness ==
  /\ pc = "FitReturned"
  /\ data = Example /\ n = 2 /\ timeSteps = 1
  /\ 3 * p.num[1][0] = p.den
  /\ Leaving(0) # {} /\ Leaving(1) # {}

\* C3: for min < max and every n, MCMFit gives each observation a state in
\* 0 .. n-1 and gives the maximum of the series the state n-1.
C3_StatesInRange ==
  (pc # "MCMFit" /\ Size(data) >= 1 /\ FlLt(NpMin(data), NpMax(data))) =>
    /\ DOMAIN state = DOMAIN data
    /\ \A k \in DOMAIN data :
         /\ state[k] \in 0..(n - 1)
         /\ (data[k] = NpMax(data) => state[k] = n - 1)

\* MCMFit has binned a series over three bins: the maximum, whose quotient
\* is clamped, is in bin 2 and another observation is in bin 1.
C3_Witness ==
  /\ pc = "FitReturned"
  /\ n = 3
  /\ Size(data) >= 3
  /\ FlLt(NpMin(data), NpMax(data))
  /\ \E k, l \in DOMAIN data :
       /\ data[k] = NpMax(data) /\ state[k] = 2
       /\ state[l] = 1

\* C8: MCMFit called with fewer than 2 observations fails with an error and
\* never returns a matrix.
C8_ShortSeriesRaises ==
  Size(data) < 2 => pc \in {"MCMFit", "FitRaised"}

\* C9: for a series with a = min < b = max, every n and every value v of the
\* series, the bin MCMForecast(P, a, b, v) selects is the state MCMFit gave v.
C9_ForecastBinIsFitState ==
  (pc = "ForecastReturned" /\ ValidSeries
     /\ minValue = NpMin(data) /\ maxValue = NpMax(data)) =>
    \A k \in DOMAIN data : data[k] = obsPoint => obsBin = state[k]

\* MCMForecast has returned.
FcDone == pc \in {"ForecastReturned", "ForecastRaised"}

\* C4: with minValue < maxValue and obsPoint >= minValue MCMForecast selects
\* the last index i with obsPoint >= binStarts[i] and returns row i of p: an
\* obsPoint equal to a bin's lower edge selects that bin, and an obsPoint at or
\* above maxValue selects the last bin.
C4_LastBinNotAbove ==
  pc = "ForecastReturned" =>
    LET nn == Size(p.num) IN
    /\ DOMAIN binStarts = 0..(nn - 1)
    /\ obsBin \in 0..(nn - 1)
    /\ FlGe(obsPoint, binStarts[obsBin])
    /\ \A k \in (obsBin + 1)..(nn - 1) : FlLt(obsPoint, binStarts[k])
    /\ transProbs = [num |-> p.num[obsBin], den |-> p.den]
    /\ \A i \in 0..(nn - 1) : obsPoint = binStarts[i] => obsBin = i
    /\ FlGe(obsPoint, maxValue) => obsBin = nn - 1

\* MCMForecast has returned for an observation on the lower edge of a bin
\* that is neither the first nor the last.
C4_Witness ==
  /\ pc = "ForecastReturned"
  /\ Size(binStarts) = 3
  /\ obsPoint = binStarts[1]
  /\ obsBin = 1

\* C5: MCMForecast returns a result only when minValue < maxValue and
\* obsPoint >= minValue; with minValue >= maxValue it fails with the
\* invalid-range error, otherwise with obsPoint < minValue it fails with the
\* out-of-range error, and in both cases it produces no output.
C5_Preconditions ==
  /\ pc = "ForecastReturned" =>
       FlLt(minValue, maxValue) /\ FlGe(obsPoint, minValue)
  /\ (FcDone /\ FlGe(minValue, maxValue)) =>
       /\ pc = "ForecastRaised"
       /\ err = "AssertionError: minValue must be less than maxValue."
       /\ binStarts = <<>> /\ transProbs = NoRow
  /\ (FcDone /\ FlLt(minValue, maxValue) /\ FlLt(obsPoint, minValue)) =>
       /\ pc = "ForecastRaised"
       /\ err = "AssertionError: Observation has to be larger than minValue."
       /\ binStarts = <<>> /\ transProbs = NoRow

\* MCMForecast has failed on minValue = maxValue = obsPoint = 0.5.
C5_Witness ==
  /\ pc = "ForecastRaised"
  /\ minValue = Tenth(5) /\ maxValue = Tenth(5) /\ obsPoint = Tenth(5)
  /\ err = "AssertionError: minValue must be less than maxValue."

\* MCMRnd has returned or raised.
RndDone == pc \in {"RndReturned", "RndRaised"}

\* C6: a draw u above every value of cumsum(transProbs) resolves to the last
\* bin, with the sample binStarts[n-1] + j; MCMRnd does not fail on it.
C6_TopOfCdfIsLastBin ==
  RndDone =>
    \A i \in DOMAIN randWithinECDF :
      WhereLe(randWithinECDF[i], CumSum(transProbs.num), transProbs.den) = {} =>
        /\ pc = "RndReturned"
        /\ fcstSamples[i] = FlAdd(binStarts[Size(binStarts) - 1], randWithinBin[i])

\* C7: for equal-width binStarts, transProbs summing to 1 and any count >= 0,
\* MCMRnd returns exactly count samples, each in
\* [binStarts[0], binStarts[-1] + binWidth).
C7_SamplesInRange ==
  (RndDone /\ RowTotal(transProbs) = transProbs.den) =>
    /\ pc = "RndReturned"
    /\ Size(fcstSamples) = count
    /\ \A i \in DOMAIN fcstSamples :
         /\ FlGe(fcstSamples[i], binStarts[0])
         /\ FlLt(fcstSamples[i],
                 FlAdd(binStarts[Size(binStarts) - 1],
                       FlSub(binStarts[1], binStarts[0])))

\* C10: for transProbs summing to 1 and every draw u in [0, 1), the bin MCMRnd
\* selects has positive probability mass.
C10_NoZeroMassBin ==
  (RndDone /\ RowTotal(transProbs) = transProbs.den) =>
    \A i \in DOMAIN binIndex : transProbs.num[binIndex[i]] > 0

====
